---- MODULE Spec2Model ----
(***************************************************************************)
(* Model of scripts/align_elf_segments.py: align_elf_to_16kb patches the   *)
(* p_align field of every PT_LOAD program header of an ELF file to 0x4000  *)
(* when it is smaller, and writes the file back when something changed.    *)
(*                                                                         *)
(* A file is a sequence of bytes (0..255).  Python offsets are 0-based,    *)
(* so byte `off' of d is d[off + 1].  One action per statement group of    *)
(* the function; `run' counts successive invocations on the same path.     *)
(* The print() calls are not modelled, except that `outcome' records which *)
(* final message (or error message) the run ended with.                    *)
(***************************************************************************)
EXTENDS Integers, Sequences, FiniteSets, TLC

\* ------------------------------------------------------------ bounds
MaxPhnum == 2        \* program headers in the generated well-formed files
MaxRuns == 2         \* successive invocations on the same path

\* ------------------------------------------------------------ python / struct
Min(a, b) == IF a < b THEN a ELSE b

\* data[a:b] on a bytearray: clipped to the length, never raises
Slice(d, a, b) == SubSeq(d, a + 1, Min(b, Len(d)))

RECURSIVE LEValue(_)
LEValue(bs) == IF bs = <<>> THEN 0 ELSE Head(bs) + 256 * LEValue(Tail(bs))

RECURSIVE BEValue(_)
BEValue(bs) ==
    IF bs = <<>> THEN 0
    ELSE 256 * BEValue(SubSeq(bs, 1, Len(bs) - 1)) + bs[Len(bs)]

\* struct.unpack(endian + fmt, bs)[0] for an unsigned fmt whose size is Len(bs);
\* the caller raises struct.error when the slice is shorter than the format
Unpack(en, bs) == IF en = "<" THEN LEValue(bs) ELSE BEValue(bs)

RECURSIVE PackLE(_, _)
PackLE(v, w) == IF w = 0 THEN <<>> ELSE <<v % 256>> \o PackLE(v \div 256, w - 1)

Reverse(s) == [k \in 1..Len(s) |-> s[Len(s) + 1 - k]]

PackLittleOnly(en, v, w) == PackLE(v, w)

\* struct.pack(endian + fmt, v) for an unsigned fmt of w bytes
Pack(en, v, w) == IF en = "<" THEN PackLE(v, w) ELSE Reverse(PackLE(v, w))

\* struct.pack_into(endian + fmt, d, off, v); off + w <= Len(d) always holds
\* here because the same range was unpacked just before
PackInto(en, w, d, off, v) ==
    [p \in 1..Len(d) |->
        IF p > off /\ p <= off + w THEN Pack(en, v, w)[p - off] ELSE d[p]]

\* ------------------------------------------------------------ the script
ELFMAG == <<127, 69, 76, 70>>

\* align_to_16kb(value): (value + 0x3fff) & ~0x3fff on a non-negative int
align_to_16kb(value) == (value + 16384 - 1) - ((value + 16384 - 1) % 16384)

IsElfMagic3(d) == Slice(d, 0, 3) = SubSeq(ELFMAG, 1, 3)

\* data[0:4] == b'\x7fELF'
IsElfMagic(d) == Slice(d, 0, 4) = ELFMAG

Is64Not1(ei_class) == ei_class /= 1

\* is_64bit = (ei_class == 2)
Is64(ei_class) == ei_class = 2

\* is_little_endian = (ei_data == 1); endian = '<' if is_little_endian else '>'
Endian(ei_data) == IF ei_data = 1 THEN "<" ELSE ">"

IsPT_LOADNonNull(p_type) == p_type /= 0

\* if p_type == 1
IsPT_LOAD(p_type) == p_type = 1

NeedsUpdate4K(current_align) == current_align < 4096

\* if current_align < 0x4000
NeedsUpdate(current_align) == current_align < 16384

VARIABLES
    exists,      \* os.path.exists(filepath)
    disk,        \* content of the file at filepath
    pre,         \* content of the file when the current run started
    existsPre,   \* whether the path existed when the current run started
    data,        \* the bytearray
    pc,          \* position in align_elf_to_16kb
    is_64bit, endian, phoff, phnum, phentsize, i, modified,
    outcome,     \* how the run ended: "aligned", "noop", "notfound", "notelf", "exception"
    retval,      \* value returned: "True", "False", or "none" (no return yet / raised)
    wopened,     \* the path was opened with mode 'wb' during the current run
    run,         \* number of the current invocation
    prevOutcome  \* outcome of the previous invocation

vars == <<exists, disk, pre, existsPre, data, pc, is_64bit, endian, phoff, phnum,
          phentsize, i, modified, outcome, retval, wopened, run, prevOutcome>>

locals == <<is_64bit, endian, phoff, phnum, phentsize, i, modified>>
fs == <<exists, disk>>
hist == <<pre, existsPre, run, prevOutcome>>

\* ------------------------------------------------------------ input files
\* The files the script is run on.  Fields are encoded with Enc, which is
\* the ELF encoding itself and independent of the script's own pack/unpack.
Zeros(n) == [k \in 1..n |-> 0]

RECURSIVE EncLE(_, _)
EncLE(v, w) == IF w = 0 THEN <<>> ELSE <<v % 256>> \o EncLE(v \div 256, w - 1)

Enc(little, v, w) == IF little THEN EncLE(v, w) ELSE Reverse(EncLE(v, w))

\* d with the bytes bs stored at offset off
Put(d, off, bs) ==
    [p \in 1..Len(d) |-> IF p > off /\ p <= off + Len(bs) THEN bs[p - off] ELSE d[p]]

\* Elf64_Ehdr / Elf32_Ehdr with e_phoff = po, e_phnum = pn; the class byte
\* cls selects the 64-bit layout only when it is ELFCLASS64 (2), the data
\* byte dat selects little-endian only when it is ELFDATA2LSB (1)
Ehdr(cls, dat, po, pn) ==
    LET l == (dat = 1)
        ident == ELFMAG \o <<cls, dat, 1, 0>> \o Zeros(8)
    IN IF cls = 2
       THEN ident \o Enc(l, 3, 2) \o Enc(l, 183, 2) \o Enc(l, 1, 4) \o Zeros(8)
            \o Enc(l, po, 8) \o Zeros(8) \o Zeros(4) \o Enc(l, 64, 2)
            \o Enc(l, 56, 2) \o Enc(l, pn, 2) \o Zeros(6)
       ELSE ident \o Enc(l, 3, 2) \o Enc(l, 40, 2) \o Enc(l, 1, 4) \o Zeros(4)
            \o Enc(l, po, 4) \o Zeros(4) \o Zeros(4) \o Enc(l, 52, 2)
            \o Enc(l, 32, 2) \o Enc(l, pn, 2) \o Zeros(6)

\* Elf64_Phdr / Elf32_Phdr with p_type = e[1], p_align = e[2], p_flags = 5
Phdr(cls, dat, e) ==
    LET l == (dat = 1)
    IN IF cls = 2
       THEN Enc(l, e[1], 4) \o Enc(l, 5, 4) \o Zeros(40) \o Enc(l, e[2], 8)
       ELSE Enc(l, e[1], 4) \o Zeros(20) \o Enc(l, 5, 4) \o Enc(l, e[2], 4)

RECURSIVE Phdrs(_, _, _)
Phdrs(cls, dat, es) ==
    IF es = <<>> THEN <<>> ELSE Phdr(cls, dat, Head(es)) \o Phdrs(cls, dat, Tail(es))

EhdrSize(cls) == IF cls = 2 THEN 64 ELSE 52

\* a well-formed image: header, then the program header table right after it
ElfImage(cls, dat, es) == Ehdr(cls, dat, EhdrSize(cls), Len(es)) \o Phdrs(cls, dat, es)

ClassVals == {0, 1, 2, 3}
DataVals == {0, 1, 2}
LoadAligns == {4096, 16383, 16384, 20480, 32768, 65536}
EntryKinds == {<<1, a>> : a \in LoadAligns} \cup {<<6, 4096>>, <<2, 8>>}
Tables == UNION {[1..n -> EntryKinds] : n \in 0..MaxPhnum}

WellFormedFiles == {ElfImage(c, d, es) : c \in ClassVals, d \in DataVals, es \in Tables}

\* images cut short: inside e_ident, inside the header, before / inside the
\* second program header (whose first one needs patching)
TruncBase(cls, dat) == ElfImage(cls, dat, <<<<1, 4096>>, <<1, 4096>>>>)
TruncLens(cls) ==
    LET h == EhdrSize(cls)
        s == IF cls = 2 THEN 56 ELSE 32
    IN {4, 5, 6, h - 20, h, h + 2, h + s - 2, h + s, h + s + 4}
TruncatedFiles ==
    UNION {{SubSeq(TruncBase(c, d), 1, n) : d \in {1, 2}, n \in TruncLens(c)} : c \in {1, 2}}

\* files that do not start with the magic; the last ones are ELF images
\* whose fourth byte is wrong
NonElfFiles ==
    {<<>>, <<127, 69, 76>>, <<35, 33, 47, 98, 105, 110, 47, 115, 104, 10>>}
    \cup {Put(ElfImage(c, 1, <<<<1, 4096>>>>), 3, <<71>>) : c \in {1, 2}}

\* an ELF32 little-endian relocatable (e_type = 1, e_machine = 0) whose
\* e_phoff is 0x10: its single program header starts at e_type and its
\* p_align field (0x10 + 0x1c = 0x2c) is the e_phnum / e_shentsize pair
OverlapFiles ==
    {Put(Ehdr(1, 1, 16, 1), 16, <<1, 0, 0, 0>>)}

InputFiles == WellFormedFiles \cup TruncatedFiles \cup NonElfFiles \cup OverlapFiles

\* ------------------------------------------------------------ state machine
Init ==
    /\ \/ exists = TRUE /\ disk \in InputFiles
       \/ exists = FALSE /\ disk = <<>>
    /\ pre = disk
    /\ existsPre = exists
    /\ data = <<>>
    /\ pc = "start"
    /\ is_64bit = FALSE /\ endian = "<" /\ phoff = 0 /\ phnum = 0
    /\ phentsize = 0 /\ i = 0 /\ modified = FALSE
    /\ outcome = "none" /\ retval = "none" /\ wopened = FALSE
    /\ run = 1 /\ prevOutcome = "none"

\* an uncaught IndexError / struct.error leaves the function without a value
Raise ==
    /\ pc' = "done" /\ outcome' = "exception" /\ retval' = "none"

\* if not os.path.exists(filepath): ... return False
CheckExists ==
    /\ pc = "start"
    /\ IF ~exists
       THEN pc' = "done" /\ outcome' = "notfound" /\ retval' = "False"
       ELSE pc' = "read" /\ UNCHANGED <<outcome, retval>>
    /\ UNCHANGED <<fs, hist, data, locals, wopened>>

\* with open(filepath, 'rb') as f: data = bytearray(f.read())
ReadFile ==
    /\ pc = "read"
    /\ data' = disk
    /\ pc' = "magic"
    /\ UNCHANGED <<fs, hist, locals, outcome, retval, wopened>>

\* if data[0:4] != b'\x7fELF': ... return False
CheckMagic ==
    /\ pc = "magic"
    /\ IF ~IsElfMagic(data)
       THEN pc' = "done" /\ outcome' = "notelf" /\ retval' = "False"
       ELSE pc' = "ident" /\ UNCHANGED <<outcome, retval>>
    /\ UNCHANGED <<fs, hist, data, locals, wopened>>

\* ei_class = data[4]; ei_data = data[5]: IndexError on a short bytearray
ReadIdent ==
    /\ pc = "ident"
    /\ IF Len(data) < 6
       THEN Raise /\ UNCHANGED locals
       ELSE /\ is_64bit' = Is64(data[4 + 1])
            /\ endian' = Endian(data[5 + 1])
            /\ pc' = "header"
            /\ UNCHANGED <<phoff, phnum, phentsize, i, modified, outcome, retval>>
    /\ UNCHANGED <<fs, hist, data, wopened>>

\* the header reads of one branch: e_phoff of width ow at po, e_phnum at pn,
\* phentsize = es, modified = False, and the loop of that branch comes next
ReadHeader(po, ow, pn, es, next) ==
    LET ob == Slice(data, po, po + ow)
        nb == Slice(data, pn, pn + 2)
    IN /\ IF Len(ob) /= ow \/ Len(nb) /= 2
          THEN Raise /\ UNCHANGED locals
          ELSE /\ phoff' = Unpack(endian, ob)
               /\ phnum' = Unpack(endian, nb)
               /\ phentsize' = es
               /\ modified' = FALSE
               /\ i' = 0
               /\ pc' = next
               /\ UNCHANGED <<is_64bit, endian, outcome, retval>>
       /\ UNCHANGED <<fs, hist, data, wopened>>

\* if is_64bit: phoff at 0x20 ('Q'), phnum at 0x38, phentsize = 56
ReadHeader64 == pc = "header" /\ is_64bit /\ ReadHeader(32, 8, 56, 56, "loop64")

\* else: phoff at 0x1c ('I'), phnum at 0x2c, phentsize = 32
ReadHeader32 == pc = "header" /\ ~is_64bit /\ ReadHeader(28, 4, 44, 32, "loop32")

\* one pass of `for i in range(phnum)' (or its end): read p_type at ph_offset;
\* for a PT_LOAD read p_align (w bytes at ph_offset + aoff) and raise it to
\* 0x4000 in the bytearray when it is smaller.  A slice shorter than the
\* format makes struct.unpack raise struct.error.
LoopBodyFlush(aoff, w) ==
    IF i >= phnum
    THEN pc' = "rewrite" /\ UNCHANGED <<fs, hist, data, locals, outcome, retval, wopened>>
    ELSE
      LET ph_offset == phoff + i * phentsize
          tb == Slice(data, ph_offset, ph_offset + 4)
          align_offset == ph_offset + aoff
          ab == Slice(data, align_offset, align_offset + w)
      IN IF Len(tb) /= 4
         THEN Raise /\ UNCHANGED <<fs, hist, data, locals, wopened>>
         ELSE IF ~IsPT_LOAD(Unpack(endian, tb))
         THEN /\ i' = i + 1
              /\ UNCHANGED <<fs, hist, data, pc, is_64bit, endian, phoff, phnum,
                             phentsize, modified, outcome, retval, wopened>>
         ELSE IF Len(ab) /= w
         THEN Raise /\ UNCHANGED <<fs, hist, data, locals, wopened>>
         ELSE IF NeedsUpdate(Unpack(endian, ab))
         THEN /\ data' = PackInto(endian, w, data, align_offset, 16384)
              /\ disk' = data'
              /\ modified' = TRUE
              /\ i' = i + 1
              /\ UNCHANGED <<exists, hist, pc, is_64bit, endian, phoff, phnum,
                             phentsize, outcome, retval, wopened>>
         ELSE /\ i' = i + 1
              /\ UNCHANGED <<fs, hist, data, pc, is_64bit, endian, phoff, phnum,
                             phentsize, modified, outcome, retval, wopened>>

LoopBody(aoff, w) ==
    IF i >= phnum
    THEN pc' = "rewrite" /\ UNCHANGED <<fs, hist, data, locals, outcome, retval, wopened>>
    ELSE
      LET ph_offset == phoff + i * phentsize
          tb == Slice(data, ph_offset, ph_offset + 4)
          align_offset == ph_offset + aoff
          ab == Slice(data, align_offset, align_offset + w)
      IN IF Len(tb) /= 4
         THEN Raise /\ UNCHANGED <<fs, hist, data, locals, wopened>>
         ELSE IF ~IsPT_LOAD(Unpack(endian, tb))
         THEN /\ i' = i + 1
              /\ UNCHANGED <<fs, hist, data, pc, is_64bit, endian, phoff, phnum,
                             phentsize, modified, outcome, retval, wopened>>
         ELSE IF Len(ab) /= w
         THEN Raise /\ UNCHANGED <<fs, hist, data, locals, wopened>>
         ELSE IF NeedsUpdate(Unpack(endian, ab))
         THEN /\ data' = PackInto(endian, w, data, align_offset, 16384)
              /\ modified' = TRUE
              /\ i' = i + 1
              /\ UNCHANGED <<fs, hist, pc, is_64bit, endian, phoff, phnum,
                             phentsize, outcome, retval, wopened>>
         ELSE /\ i' = i + 1
              /\ UNCHANGED <<fs, hist, data, pc, is_64bit, endian, phoff, phnum,
                             phentsize, modified, outcome, retval, wopened>>

\* ELF64 loop: p_align is 8 bytes ('Q') at offset 0x30 of the program header
Loop64 == pc = "loop64" /\ LoopBody(48, 8)

\* ELF32 loop: p_align is 4 bytes ('I') at offset 0x1c of the program header
Loop32 == pc = "loop32" /\ LoopBody(28, 4)

RewriteAlways ==
    /\ pc = "rewrite"
    /\ wopened' = TRUE /\ exists' = TRUE /\ disk' = <<>> /\ pc' = "write"
    /\ UNCHANGED <<outcome, retval, hist, data, locals>>

\* if modified: open(filepath, 'wb'), which creates / truncates the file;
\* else: "already 16KB aligned", return True
Rewrite ==
    /\ pc = "rewrite"
    /\ IF modified
       THEN /\ wopened' = TRUE /\ exists' = TRUE /\ disk' = <<>>
            /\ pc' = "write"
            /\ UNCHANGED <<outcome, retval>>
       ELSE /\ pc' = "done" /\ outcome' = "noop" /\ retval' = "True"
            /\ UNCHANGED <<fs, wopened>>
    /\ UNCHANGED <<hist, data, locals>>

\* f.write(data), the file is closed; "Successfully aligned", return True
WriteBack ==
    /\ pc = "write"
    /\ disk' = data
    /\ pc' = "done" /\ outcome' = "aligned" /\ retval' = "True"
    /\ UNCHANGED <<exists, hist, data, locals, wopened>>

\* sys.exit(0 if success else 1); an uncaught exception also exits with 1
ExitCode == IF retval = "True" THEN 0 ELSE 1

\* the script is invoked again on the same path
NextRun ==
    /\ pc = "done"
    /\ run < MaxRuns
    /\ run' = run + 1
    /\ prevOutcome' = outcome
    /\ pre' = disk
    /\ existsPre' = exists
    /\ data' = <<>>
    /\ pc' = "start"
    /\ is_64bit' = FALSE /\ endian' = "<" /\ phoff' = 0 /\ phnum' = 0
    /\ phentsize' = 0 /\ i' = 0 /\ modified' = FALSE
    /\ outcome' = "none" /\ retval' = "none" /\ wopened' = FALSE
    /\ UNCHANGED fs

Next ==
    \/ CheckExists
    \/ ReadFile
    \/ CheckMagic
    \/ ReadIdent
    \/ ReadHeader64
    \/ ReadHeader32
    \/ Loop64
    \/ Loop32
    \/ Rewrite
    \/ WriteBack
    \/ NextRun

Spec == Init /\ [][Next]_vars

TypeOK ==
    /\ exists \in BOOLEAN /\ existsPre \in BOOLEAN
    /\ \A p \in 1..Len(disk) : disk[p] \in 0..255
    /\ \A p \in 1..Len(data) : data[p] \in 0..255
    /\ pc \in {"start", "read", "magic", "ident", "header", "loop64", "loop32",
               "rewrite", "write", "done"}
    /\ outcome \in {"none", "aligned", "noop", "notfound", "notelf", "exception"}
    /\ retval \in {"none", "True", "False"}
    /\ run \in 1..MaxRuns

\* ------------------------------------------------------------ properties
\* The layout the ELF identification of the file the run started on selects,
\* read off `pre' directly: class byte 2 is the 64-bit layout, data byte 1
\* is little-endian.
XIs64 == pre[4 + 1] = 2
XLittle == pre[5 + 1] = 1
XVal(bs) == IF XLittle THEN LEValue(bs) ELSE BEValue(bs)
XEntSize == IF XIs64 THEN 56 ELSE 32
XAlignOff == IF XIs64 THEN 48 ELSE 28
XAlignW == IF XIs64 THEN 8 ELSE 4
XPhoff == IF XIs64 THEN XVal(Slice(pre, 32, 40)) ELSE XVal(Slice(pre, 28, 32))
XPhnum == IF XIs64 THEN XVal(Slice(pre, 56, 58)) ELSE XVal(Slice(pre, 44, 46))
XEnt(k) == XPhoff + k * XEntSize
XType(d, k) == XVal(Slice(d, XEnt(k), XEnt(k) + 4))
XField(d, k) == Slice(d, XEnt(k) + XAlignOff, XEnt(k) + XAlignOff + XAlignW)
XAlign(d, k) == XVal(XField(d, k))
XLoads == {k \in 0..(XPhnum - 1) : XType(pre, k) = 1}
\* byte offset p lies in the alignment field of program header k
InField(p, k) == p >= XEnt(k) + XAlignOff /\ p < XEnt(k) + XAlignOff + XAlignW
InEntry(p, k) == p >= XEnt(k) /\ p < XEnt(k) + XEntSize

Done == pc = "done"
Success == pc = "done" /\ retval = "True"
PreIsElf == existsPre /\ Slice(pre, 0, 4) = <<127, 69, 76, 70>>

\* C1: after a run that returns success, every PT_LOAD program header of the
\* file has an alignment field >= 0x4000 and >= its value before the run.
C1_LoadAlignAtLeast16K ==
    Success =>
        \A k \in 0..(XPhnum - 1) :
            XType(disk, k) = 1 =>
                /\ XAlign(disk, k) >= 16384
                /\ XAlign(disk, k) >= XAlign(pre, k)

C1_Witness ==
    /\ Success /\ outcome = "aligned"
    /\ \E k \in XLoads : XAlign(pre, k) < 16384 /\ XAlign(disk, k) = 16384
    /\ \E k \in XLoads : XAlign(pre, k) > 16384

\* C2: when the operation has ended the file has its former length, every
\* byte that changed lies in the alignment field of a PT_LOAD program header,
\* and no byte of a non-loadable program header was written, in the
\* bytearray or in the file.
C2_BytePassthrough ==
    /\ Done =>
        /\ Len(disk) = Len(pre)
        /\ exists = existsPre
        /\ IF Success
           THEN \A p \in 0..(Len(pre) - 1) :
                    disk[p + 1] /= pre[p + 1] => \E k \in XLoads : InField(p, k)
           ELSE disk = pre
    /\ (pc \in {"loop64", "loop32", "rewrite", "write", "done"} /\ PreIsElf /\ Len(pre) >= 6) =>
        /\ Len(data) = Len(pre)
        /\ \A p \in 0..(Len(pre) - 1) :
              data[p + 1] /= pre[p + 1] => \E k \in XLoads : InField(p, k)

C2_Witness ==
    /\ Success /\ outcome = "aligned" /\ disk /= pre
    /\ \E k \in 0..(XPhnum - 1) : XType(pre, k) /= 1 /\ XAlign(pre, k) < 16384

\* C3: after a successful run a PT_LOAD alignment field that was below 0x4000
\* holds exactly 0x4000 in the width and byte order of the file, and one that
\* was >= 0x4000 holds the bytes it held before.
X16K ==
    IF XLittle THEN <<0, 64>> \o [k \in 1..(XAlignW - 2) |-> 0]
    ELSE [k \in 1..(XAlignW - 2) |-> 0] \o <<64, 0>>

C3_ExactResult ==
    Success =>
        \A k \in XLoads :
            IF XAlign(pre, k) < 16384
            THEN XField(disk, k) = X16K
            ELSE XField(disk, k) = XField(pre, k)

C3_Witness ==
    /\ Success /\ ~XLittle /\ XIs64
    /\ \E k \in XLoads : XAlign(pre, k) < 16384 /\ XField(disk, k) = X16K
    /\ \E k \in XLoads : XAlign(pre, k) = 65536 /\ XAlign(disk, k) = 65536

\* C4: the file is opened for writing only when modified is true; a run that
\* reaches the rewriter returns True, has written the whole bytearray exactly
\* when modified is true, and modified is true exactly when some PT_LOAD
\* program header had an alignment below 0x4000.
C4_WriteIffModified ==
    /\ wopened => modified
    /\ (Done /\ outcome \in {"aligned", "noop"}) =>
        /\ retval = "True"
        /\ wopened <=> modified
        /\ modified <=> (\E k \in XLoads : XAlign(pre, k) < 16384)
        /\ modified <=> (outcome = "aligned")
        /\ IF modified THEN disk = data ELSE disk = pre

C4_Witness ==
    /\ Done /\ outcome = "aligned" /\ modified /\ wopened /\ disk = data /\ disk /= pre

C4_WitnessNoop ==
    /\ Done /\ outcome = "noop" /\ ~modified /\ ~wopened /\ XLoads /= {}

\* C5: idempotence: when a first run succeeded, a second run on the resulting
\* file ends with "already aligned" (modified false), does not open the file
\* for writing, and leaves the file as the first run left it.
C5_Idempotence ==
    (Done /\ run = 2 /\ prevOutcome \in {"aligned", "noop"}) =>
        /\ outcome = "noop"
        /\ ~modified
        /\ ~wopened
        /\ disk = pre

\* C6: a run on a path that does not exist, or on a file whose first four
\* bytes are not the ELF magic, returns False without ever opening the path
\* for writing: the file keeps its bytes and a missing path is not created.
C6_FailureNeverWrites ==
    /\ ~PreIsElf => ~wopened /\ disk = pre /\ exists = existsPre
    /\ (Done /\ ~PreIsElf) =>
        /\ retval = "False"
        /\ outcome = IF existsPre THEN "notelf" ELSE "notfound"
    /\ (Done /\ outcome \in {"notfound", "notelf"}) => ~PreIsElf

C6_Witness ==
    /\ Done /\ outcome = "notelf" /\ retval = "False"
    /\ Len(pre) >= 52 /\ Slice(pre, 0, 3) = <<127, 69, 76>> /\ disk = pre

C6_WitnessMissing ==
    /\ Done /\ outcome = "notfound" /\ ~exists /\ disk = <<>>

\* C7: every invocation ends in one of three outcomes: success-aligned,
\* success-no-op, or failure because the path is missing or the magic is
\* wrong; a file that exists and starts with the ELF magic yields success.
C7_ThreeOutcomes ==
    Done =>
        /\ outcome \in {"aligned", "noop", "notfound", "notelf"}
        /\ PreIsElf => retval = "True" /\ ExitCode = 0
        /\ ~PreIsElf => retval = "False" /\ ExitCode = 1

\* C8 as stated: at every point of every run the file on disk is either its
\* original content or the fully patched image.
FullyPatched(d) ==
    /\ Len(d) = Len(pre)
    /\ PreIsElf /\ Len(pre) >= 6
    /\ \A k \in 0..(XPhnum - 1) : XType(d, k) = 1 => XAlign(d, k) >= 16384
    /\ \A p \in 0..(Len(pre) - 1) :
          d[p + 1] /= pre[p + 1] => \E k \in XLoads : InField(p, k)

C8_OriginalOrPatchedAlways ==
    disk = pre \/ FullyPatched(disk)

\* C8, amended: while the file is not open for writing it is either its
\* original content or the fully patched image; between open(filepath, 'wb')
\* and the end of f.write it is empty (truncated), and all program headers
\* have been processed in memory by then; a run that raised, also one that
\* had already patched entries in memory, leaves the file as it was.
C8_AllOrNothing ==
    /\ pc /= "write" => (disk = pre \/ FullyPatched(disk))
    /\ pc = "write" => disk = <<>> /\ FullyPatched(data)
    /\ (Done /\ outcome = "exception") => disk = pre /\ ~wopened

C8_Witness ==
    /\ Done /\ outcome = "exception" /\ modified /\ data /= pre /\ disk = pre

\* C9: after a successful run every PT_LOAD alignment value is on a 16KB
\* boundary, i.e. it is what align_to_16kb makes of it.
C9_LoadsOn16KBoundary ==
    Success =>
        \A k \in XLoads :
            /\ XAlign(disk, k) % 16384 = 0
            /\ align_to_16kb(XAlign(disk, k)) = XAlign(disk, k)

\* C10: for a file with the ELF magic the class and data bytes never cause a
\* rejection; the 64-bit layout is used exactly when byte 4 is 2, the 32-bit
\* layout otherwise; little-endian exactly when byte 5 is 1, big-endian
\* otherwise.
C10_LayoutSelection ==
    /\ (PreIsElf /\ Done) => outcome \notin {"notfound", "notelf"}
    /\ pc \in {"header", "loop64", "loop32", "rewrite", "write"} \/ Success =>
        /\ is_64bit <=> (pre[4 + 1] = 2)
        /\ (endian = "<") <=> (pre[5 + 1] = 1)
        /\ endian \in {"<", ">"}
    /\ pc \in {"loop64", "loop32", "rewrite", "write"} \/ Success =>
        /\ pc = "loop64" => pre[4 + 1] = 2
        /\ pc = "loop32" => pre[4 + 1] /= 2
        /\ phentsize = (IF pre[4 + 1] = 2 THEN 56 ELSE 32)
        /\ phoff = (IF pre[4 + 1] = 2
                    THEN Unpack(IF pre[5 + 1] = 1 THEN "<" ELSE ">", Slice(pre, 32, 40))
                    ELSE Unpack(IF pre[5 + 1] = 1 THEN "<" ELSE ">", Slice(pre, 28, 32)))
        /\ phnum = (IF pre[4 + 1] = 2
                    THEN Unpack(IF pre[5 + 1] = 1 THEN "<" ELSE ">", Slice(pre, 56, 58))
                    ELSE Unpack(IF pre[5 + 1] = 1 THEN "<" ELSE ">", Slice(pre, 44, 46)))
        /\ \A p \in 0..(Len(data) - 1) :
              data[p + 1] /= pre[p + 1] =>
                  \E k \in 0..(phnum - 1) :
                      LET a == phoff + k * (IF pre[4 + 1] = 2 THEN 56 ELSE 32)
                                 + (IF pre[4 + 1] = 2 THEN 48 ELSE 28)
                      IN p >= a /\ p < a + (IF pre[4 + 1] = 2 THEN 8 ELSE 4)

C10_Witness ==
    /\ Success /\ outcome = "aligned"
    /\ pre[4 + 1] = 3 /\ pre[5 + 1] = 0
    /\ ~is_64bit /\ endian = ">" /\ phentsize = 32 /\ phnum = 2

====
